---- MODULE Spec2Model ----
(***************************************************************************)
(* Model of tools/confluence-sync/sync_to_confluence.py: the page          *)
(* reconciler (process_markdown_file), the file loop and exit code         *)
(* (process_markdown_files, main) and upload_attachment, run against a     *)
(* remote wiki that keeps pages and attachments.                           *)
(*                                                                         *)
(* One action is the code between two remote calls; the answer of the      *)
(* remote (its status) is drawn with \E.                                   *)
(***************************************************************************)
EXTENDS Integers, Sequences, FiniteSets, TLC

\* ---------------------------------------------------------------- bounds
MaxFiles == 2       \* markdown files found under docs/

\* ------------------------------------------------------------- constants
SPACE_KEY == "DOCS"                 \* default of CONFLUENCE_SPACE_KEY
PARENT_ID == "55"                   \* value of CONFLUENCE_PARENT_ID
DocTitles == {"Intro"}              \* confluence_title of the documents
SeedTitles == {"intro"}             \* title of the page the remote holds at the start
SpaceKeys == {"ENG"}                \* confluence_space_key values of the documents
DocParentIds == {"", "77"}          \* confluence_parent_id values of the documents
SeedVersions == {3}                 \* version of the page the remote holds at the start
SeedAttachments == {<<"a.png">>}    \* attachments of that page at the start
LocalImages == {"a.png", "b.png"}   \* image files that exist next to the document
SeedPageId == "1001"                \* a page the remote holds from the start
AbsentPageId == "9999"              \* an identifier the remote does not know
Absent == "<absent>"                \* a front-matter key that is not given

\* A page representation (JSON object) as the code reads it: the keys it
\* carries and their values.  NoPage is Python's None.
NoPage == [keys |-> {}, id |-> "", title |-> "", version |-> 0]
\* The keys of a page representation that the code reads.
FullKeys == {"id", "title", "version", "_links"}
\* The JSON object of an error answer.
ErrorBody == [keys |-> {"statusCode", "message"}, id |-> "", title |-> "", version |-> 0]
Statuses == {"ok", "http_error", "exception"}
\* GET /rest/api/content/ (empty identifier) answers with a collection.
CollectionKeys == {"results", "_links"}

Truthy(page) == page.keys # {}

PageRep(id, t, version, keys) ==
    [keys |-> keys, id |-> id, title |-> t, version |-> version]

\* -------------------------------------------------------------- the state
VARIABLES
    pc,                 \* position of the program
    env,                \* environment: credentials present, CONFLUENCE_PARENT_ID
    nfiles,             \* len(md_files)
    idx,                \* files the loop has taken so far
    success_count,
    failure_count,
    exit_code,          \* -1 while running
    raised,             \* an exception left process_markdown_file
    ret,                \* what process_markdown_file did last: "True", "False", "raised", "none"
    frontmatter,        \* of the current document
    body,               \* of the current document: its image references, in order
    title,
    confluence_content, \* markup of the current document
    images_to_upload,   \* images collected by the last conversion
    queue,              \* images the upload loop has not taken yet
    branch,             \* "id", "title", "create" or "none"
    page_id,
    space_key,
    parent_id,
    existing_page,
    result,
    existing_attachment,\* position in the listing of the attachment found, 0 for None
    calls,              \* remote calls issued for the current document, in order
    call_failed,        \* some remote call of the current document failed
    pages               \* remote: sequence of [id, title, space, version, attachments]

vars == <<pc, env, nfiles, idx, success_count, failure_count, exit_code, raised,
          ret, frontmatter, body, title, confluence_content, images_to_upload, queue,
          branch, page_id, space_key, parent_id, existing_page, result,
          existing_attachment, calls, call_failed, pages>>


\* ------------------------------------------------- markdown converter
\* A body is the sequence of its image references ![alt](path); the markup
\* is the sequence of what each reference is replaced by.
Exists(image_path) == image_path \in LocalImages

image_replace(image_path, md_file_path, collecting) ==
    IF md_file_path /\ collecting
    THEN IF Exists(image_path)
         THEN [kind |-> "attachment", name |-> image_path]
         ELSE [kind |-> "not_found", name |-> image_path]
    ELSE [kind |-> "no_page", name |-> image_path]

\* markdown_to_confluence_storage putting the page into the attachment
\* references once it is given one.
markdown_to_confluence_storage_reads_page_id(md_content, md_file_path, pid, collecting) ==
    [content |-> [i \in 1..Len(md_content) |->
                     IF pid # "" /\ Exists(md_content[i])
                     THEN [kind |-> "attachment_of_page", name |-> md_content[i]]
                     ELSE image_replace(md_content[i], md_file_path, collecting)],
     images |-> IF md_file_path /\ collecting
                THEN SelectSeq(md_content, Exists)
                ELSE <<>>]

\* page_id is a parameter of the function; its body never reads it.
markdown_to_confluence_storage(md_content, md_file_path, pid, collecting) ==
    [content |-> [i \in 1..Len(md_content) |->
                     image_replace(md_content[i], md_file_path, collecting)],
     images |-> IF md_file_path /\ collecting
                THEN SelectSeq(md_content, Exists)
                ELSE <<>>]

\* ------------------------------------------------------- remote calls
\* What the remote answers: the transport status, the HTTP code, the JSON
\* object and, for listings, the results.
Resp(status, code, json, results) ==
    [status |-> status, code |-> code, json |-> json, results |-> results]

Failed(resp) == resp.status # "ok" \/ resp.code \notin {200, 201}

\* One remote call as it leaves the program, with what came back: whether
\* it failed, the JSON object and the results of a listing.  held is the
\* attachment titles the page held when an upload reached the remote.
Call(op, page) ==
    [op |-> op, page |-> page, space |-> "", title |-> "", version |-> 0,
     ancestors |-> <<>>, content |-> <<>>, filename |-> "", att |-> 0,
     failed |-> FALSE, answer |-> NoPage, results |-> <<>>, held |-> <<>>]

Answered(call, resp) ==
    [call EXCEPT !.failed = Failed(resp),
                 !.answer = IF Failed(resp) THEN NoPage ELSE resp.json,
                 !.results = resp.results]

PageIndex(id) ==
    IF \E i \in 1..Len(pages) : pages[i].id = id
    THEN CHOOSE i \in 1..Len(pages) : pages[i].id = id
    ELSE 0

NewId == ToString(2000 + Len(pages))

Lower(t) == IF t \in {"Intro", "intro"} THEN "intro" ELSE t

\* GET /rest/api/content/{id}
RemoteGet(id, status) ==
    IF status = "exception" THEN Resp("exception", 0, NoPage, <<>>)
    ELSE IF status = "http_error" THEN Resp("ok", 500, ErrorBody, <<>>)
    ELSE IF id = "" THEN Resp("ok", 200, PageRep("", "", 0, CollectionKeys), <<>>)
    ELSE IF PageIndex(id) = 0 THEN Resp("ok", 404, ErrorBody, <<>>)
    ELSE LET p == pages[PageIndex(id)]
         IN Resp("ok", 200, PageRep(p.id, p.title, p.version, FullKeys), <<>>)

\* GET /rest/api/content?spaceKey=&title=&type=page&status=current&expand=version
\* The remote matches titles without regard to case.
RemoteSearch(space, t, status) ==
    IF status = "exception" THEN Resp("exception", 0, NoPage, <<>>)
    ELSE IF status = "http_error" THEN Resp("ok", 500, ErrorBody, <<>>)
    ELSE LET hit(p) == p.space = space /\ Lower(p.title) = Lower(t)
             found == SelectSeq(pages, hit)
         IN Resp("ok", 200, NoPage,
                 [i \in 1..Len(found) |->
                     PageRep(found[i].id, found[i].title, found[i].version, FullKeys)])

Held(id) == IF PageIndex(id) = 0 THEN <<>> ELSE pages[PageIndex(id)].attachments

\* GET /rest/api/content/{id}/child/attachment
RemoteList(id, status) ==
    IF status = "exception" THEN Resp("exception", 0, NoPage, <<>>)
    ELSE IF status = "http_error" \/ PageIndex(id) = 0 THEN Resp("ok", 500, ErrorBody, <<>>)
    ELSE Resp("ok", 200, NoPage, pages[PageIndex(id)].attachments)

\* ------------------------------------------- the code's reading of answers
\* get_page_by_id without its status check: whatever JSON came back.
get_page_by_id_any_status(resp) ==
    IF resp.status = "exception" THEN NoPage ELSE resp.json

get_page_by_id(resp) ==
    IF resp.status = "exception" THEN NoPage
    ELSE IF resp.code = 200 THEN resp.json
    ELSE NoPage

\* search_page_by_title without the exact comparison: the first candidate.
search_page_by_title_first(resp, t) ==
    IF resp.status = "exception" THEN NoPage
    ELSE IF resp.code = 200 /\ resp.results # <<>> THEN resp.results[1]
    ELSE NoPage

\* process_markdown_file without the title search: nothing is ever found.
search_page_by_title_never(resp, t) == NoPage

search_page_by_title(resp, t) ==
    IF resp.status = "exception" THEN NoPage
    ELSE IF resp.code = 200
    THEN IF \E i \in 1..Len(resp.results) : resp.results[i].title = t
         THEN resp.results[CHOOSE i \in 1..Len(resp.results) :
                    /\ resp.results[i].title = t
                    /\ \A j \in 1..(i-1) : resp.results[j].title # t]
         ELSE NoPage
    ELSE NoPage

\* create_page sending the ancestors whatever the parent is.
create_page_data_always_ancestors(space, t, content, parent) ==
    [Call("POST_CONTENT", "") EXCEPT
        !.space = space, !.title = t, !.content = content, !.ancestors = <<parent>>]

create_page_data(space, t, content, parent) ==
    [Call("POST_CONTENT", "") EXCEPT
        !.space = space, !.title = t, !.content = content,
        !.ancestors = IF parent # "" THEN <<parent>> ELSE <<>>]

create_page(resp) ==
    IF resp.status = "exception" THEN NoPage
    ELSE IF resp.code = 200 /\ "_links" \in resp.json.keys THEN resp.json
    ELSE NoPage

\* update_page sending the version it was given.
update_page_data_same_version(id, t, content, version) ==
    [Call("PUT_CONTENT", id) EXCEPT
        !.title = t, !.content = content, !.version = version]

update_page_data(id, t, content, version) ==
    [Call("PUT_CONTENT", id) EXCEPT
        !.title = t, !.content = content, !.version = version + 1]

update_page(resp) ==
    IF resp.status = "exception" THEN NoPage
    ELSE IF resp.code = 200 /\ "_links" \in resp.json.keys THEN resp.json
    ELSE NoPage

\* upload_attachment: the attachment of the listing whose title is the file
\* name (its position, 0 for None).
find_existing_attachment(resp, filename) ==
    IF resp.status = "ok" /\ resp.code = 200
       /\ \E i \in 1..Len(resp.results) : resp.results[i] = filename
    THEN CHOOSE i \in 1..Len(resp.results) :
            /\ resp.results[i] = filename
            /\ \A j \in 1..(i-1) : resp.results[j] # filename
    ELSE 0

upload_target(id, filename, existing) ==
    IF existing # 0
    THEN [Call("POST_ATTACHMENT_DATA", id) EXCEPT !.filename = filename, !.att = existing]
    ELSE [Call("POST_ATTACHMENT", id) EXCEPT !.filename = filename]


\* PUT /rest/api/content/{id}: accepted when the version number is the
\* successor of the page's version.
RemotePut(data, status) ==
    IF status = "exception" THEN Resp("exception", 0, NoPage, <<>>)
    ELSE IF status = "http_error" \/ PageIndex(data.page) = 0 THEN Resp("ok", 500, ErrorBody, <<>>)
    ELSE LET p == pages[PageIndex(data.page)]
         IN IF data.version = p.version + 1
            THEN Resp("ok", 200, PageRep(p.id, data.title, data.version, FullKeys), <<>>)
            ELSE Resp("ok", 409, ErrorBody, <<>>)

PagesAfterPut(data, resp) ==
    IF resp.status = "ok" /\ resp.code = 200
    THEN [pages EXCEPT ![PageIndex(data.page)].version = data.version,
                       ![PageIndex(data.page)].title = data.title]
    ELSE pages

\* POST /rest/api/content
RemoteCreate(data, status) ==
    IF status = "exception" THEN Resp("exception", 0, NoPage, <<>>)
    ELSE IF status = "http_error" THEN Resp("ok", 500, ErrorBody, <<>>)
    ELSE Resp("ok", 200, PageRep(NewId, data.title, 1, FullKeys), <<>>)

PagesAfterCreate(data, resp) ==
    IF resp.status = "ok" /\ resp.code = 200
    THEN Append(pages, [id |-> NewId, title |-> data.title, space |-> data.space,
                        version |-> 1, attachments |-> <<>>])
    ELSE pages

\* POST .../child/attachment and POST .../child/attachment/{id}/data.  The
\* remote refuses a new attachment whose title the page already holds, and a
\* replacement of an attachment it does not hold.
RemoteUpload(call, status) ==
    IF status = "exception" THEN Resp("exception", 0, NoPage, <<>>)
    ELSE IF status = "http_error" \/ PageIndex(call.page) = 0 THEN Resp("ok", 500, ErrorBody, <<>>)
    ELSE LET held == pages[PageIndex(call.page)].attachments
         IN IF call.op = "POST_ATTACHMENT_DATA"
            THEN IF call.att \in 1..Len(held)
                 THEN Resp("ok", 200, NoPage, <<>>)
                 ELSE Resp("ok", 404, ErrorBody, <<>>)
            ELSE IF \E i \in 1..Len(held) : held[i] = call.filename
                 THEN Resp("ok", 400, ErrorBody, <<>>)
                 ELSE Resp("ok", 200, NoPage, <<>>)

PagesAfterUpload(call, resp) ==
    IF resp.status = "ok" /\ resp.code = 200 /\ call.op = "POST_ATTACHMENT"
    THEN [pages EXCEPT ![PageIndex(call.page)].attachments = Append(@, call.filename)]
    ELSE pages

\* --------------------------------------------------------------- inputs
\* The front-matter of a document.  A document that names its page is read
\* for confluence_page_id and confluence_title alone, so the two keys of the
\* other branch are left out of it.
FrontMatters ==
    [confluence_page_id : {"", SeedPageId, AbsentPageId},
     confluence_title : DocTitles,
     confluence_space_key : {Absent},
     confluence_parent_id : {Absent}]
    \cup
    [confluence_page_id : {Absent},
     confluence_title : DocTitles,
     confluence_space_key : {Absent} \cup SpaceKeys,
     confluence_parent_id : {Absent} \cup DocParentIds]

\* The bodies of the documents: each references some of the local images,
\* in some order, each once.
Bodies ==
    {b \in UNION {[1..n -> LocalImages] : n \in 0..Cardinality(LocalImages)} :
        \A i, j \in 1..Len(b) : b[i] = b[j] => i = j}

Get(fm, key, default) == IF fm[key] = Absent THEN default ELSE fm[key]

NoFrontMatter ==
    [confluence_page_id |-> Absent, confluence_title |-> Absent,
     confluence_space_key |-> Absent, confluence_parent_id |-> Absent]

\* ----------------------------------------------------------------- Init
Init ==
    /\ pc = "main"
    /\ env \in [credentials : BOOLEAN, PARENT_ID : {PARENT_ID}]
    /\ nfiles = 0
    /\ idx = 0
    /\ success_count = 0
    /\ failure_count = 0
    /\ exit_code = -1
    /\ raised = FALSE
    /\ ret = "none"
    /\ frontmatter = NoFrontMatter
    /\ body = <<>>
    /\ title = ""
    /\ confluence_content = <<>>
    /\ images_to_upload = <<>>
    /\ queue = <<>>
    /\ branch = "none"
    /\ page_id = ""
    /\ space_key = ""
    /\ parent_id = ""
    /\ existing_page = NoPage
    /\ result = NoPage
    /\ existing_attachment = 0
    /\ calls = <<>>
    /\ call_failed = FALSE
    /\ pages \in {<<[id |-> SeedPageId, title |-> t, space |-> SPACE_KEY,
                     version |-> v, attachments |-> a]>> :
                    t \in SeedTitles, v \in SeedVersions, a \in SeedAttachments}

\* ------------------------------------------------------ control transfer
Goto(p) ==
    /\ pc' = p
    /\ UNCHANGED <<idx, success_count, failure_count, exit_code, raised, ret>>

\* process_markdown_file returns b to the loop of process_markdown_files.
Return(b) ==
    /\ pc' = "returned"
    /\ ret' = IF b THEN "True" ELSE "False"
    /\ UNCHANGED <<idx, success_count, failure_count, exit_code, raised>>

\* An exception nothing catches: it leaves process_markdown_file, the loop
\* and main, and the interpreter exits with status 1.
Raise ==
    /\ pc' = "exit"
    /\ exit_code' = 1
    /\ raised' = TRUE
    /\ ret' = "raised"
    /\ UNCHANGED <<idx, success_count, failure_count>>

ExitCode(failures) == IF failures > 0 THEN 1 ELSE 0


\* ---------------------------------------------------------------- actions
\* main: validate_config, then process_markdown_files up to its loop.
Main ==
    /\ pc = "main"
    /\ IF ~env.credentials
       THEN /\ pc' = "exit"
            /\ exit_code' = 1
            /\ nfiles' = nfiles
       ELSE /\ pc' = "loop"
            /\ exit_code' = exit_code
            /\ nfiles' \in 0..MaxFiles
    /\ UNCHANGED <<env, idx, success_count, failure_count, raised, ret, frontmatter,
                   body, title, confluence_content, images_to_upload, queue, branch,
                   page_id, space_key, parent_id, existing_page, result,
                   existing_attachment, calls, call_failed, pages>>

\* process_markdown_file: the file cannot be read.
ReadError ==
    /\ pc = "loop"
    /\ idx < nfiles
    /\ Return(FALSE)
    /\ UNCHANGED <<env, nfiles, frontmatter, body, title, confluence_content,
                   images_to_upload, queue, branch, page_id, space_key, parent_id,
                   existing_page, result, existing_attachment, calls, call_failed,
                   pages>>

\* process_markdown_file up to its first remote call: read, parse the
\* front-matter, convert, choose the branch.
BeginFile ==
    /\ pc = "loop"
    /\ idx < nfiles
    /\ \E fm \in FrontMatters, b \in Bodies :
        LET conv == markdown_to_confluence_storage(b, TRUE, "", TRUE)
            by_id == fm.confluence_page_id # Absent
        IN /\ frontmatter' = fm
           /\ body' = b
           /\ title' = fm.confluence_title
           /\ confluence_content' = conv.content
           /\ images_to_upload' = conv.images
           /\ branch' = IF by_id THEN "id" ELSE "none"
           /\ page_id' = IF by_id THEN fm.confluence_page_id ELSE ""
           /\ space_key' = IF by_id THEN "" ELSE Get(fm, "confluence_space_key", SPACE_KEY)
           /\ parent_id' = IF by_id THEN "" ELSE Get(fm, "confluence_parent_id", env.PARENT_ID)
           /\ pc' = IF by_id THEN "get_page" ELSE "search"
    /\ UNCHANGED <<env, nfiles, idx, success_count, failure_count, exit_code, raised,
                   ret, queue, existing_page, result, existing_attachment, calls,
                   call_failed, pages>>

\* The second conversion, made once the page identifier is known.
Reconvert(pid) ==
    LET conv == markdown_to_confluence_storage(body, TRUE, pid, TRUE)
    IN IF images_to_upload # <<>>
       THEN /\ images_to_upload' = conv.images
            /\ confluence_content' = conv.content
       ELSE UNCHANGED <<images_to_upload, confluence_content>>

\* The branch with confluence_page_id: get_page_by_id and what follows it
\* up to the update request.
GetPage ==
    /\ pc = "get_page"
    /\ \E status \in Statuses :
        LET resp == RemoteGet(page_id, status)
            page == get_page_by_id(resp)
        IN /\ calls' = Append(calls, Answered(Call("GET_CONTENT", page_id), resp))
           /\ call_failed' = (call_failed \/ Failed(resp))
           /\ existing_page' = page
           /\ IF Truthy(page)
              THEN /\ Reconvert(page_id)
                   /\ IF "version" \in page.keys THEN Goto("update") ELSE Raise
              ELSE /\ Return(FALSE)
                   /\ UNCHANGED <<images_to_upload, confluence_content>>
    /\ UNCHANGED <<env, nfiles, frontmatter, body, title, queue, branch, page_id,
                   space_key, parent_id, result, existing_attachment, pages>>

\* The branch without confluence_page_id: search_page_by_title and what
\* follows it up to the update or the create request.
Search ==
    /\ pc = "search"
    /\ \E status \in Statuses :
        LET resp == RemoteSearch(space_key, title, status)
            page == search_page_by_title(resp, title)
        IN /\ calls' = Append(calls, Answered([Call("SEARCH", "") EXCEPT
                                        !.space = space_key, !.title = title], resp))
           /\ call_failed' = (call_failed \/ Failed(resp))
           /\ existing_page' = page
           /\ IF Truthy(page)
              THEN /\ branch' = "title"
                   /\ IF "id" \notin page.keys
                      THEN /\ Raise
                           /\ UNCHANGED <<page_id, images_to_upload, confluence_content>>
                      ELSE /\ page_id' = page.id
                           /\ Reconvert(page.id)
                           /\ IF "version" \in page.keys THEN Goto("update") ELSE Raise
              ELSE /\ branch' = "create"
                   /\ Goto("create")
                   /\ UNCHANGED <<page_id, images_to_upload, confluence_content>>
    /\ UNCHANGED <<env, nfiles, frontmatter, body, title, queue, space_key, parent_id,
                   result, existing_attachment, pages>>

\* The update branches uploading whatever update_page returned.
UpdatePageUploadsRegardless ==
    /\ pc = "update"
    /\ \E status \in Statuses :
        LET data == update_page_data(page_id, title, confluence_content,
                                     existing_page.version)
            resp == RemotePut(data, status)
            res == update_page(resp)
        IN /\ calls' = Append(calls, [data EXCEPT !.failed = Failed(resp)])
           /\ call_failed' = (call_failed \/ Failed(resp))
           /\ pages' = PagesAfterPut(data, resp)
           /\ result' = res
           /\ IF images_to_upload # <<>>
              THEN /\ queue' = images_to_upload
                   /\ Goto("upload_list")
              ELSE /\ queue' = queue
                   /\ Return(Truthy(res))
    /\ UNCHANGED <<env, nfiles, frontmatter, body, title, confluence_content,
                   images_to_upload, branch, page_id, space_key, parent_id,
                   existing_page, existing_attachment>>

\* update_page on the two update branches and what follows it up to the
\* first upload or the return.
UpdatePage ==
    /\ pc = "update"
    /\ \E status \in Statuses :
        LET data == update_page_data(page_id, title, confluence_content,
                                     existing_page.version)
            resp == RemotePut(data, status)
            res == update_page(resp)
        IN /\ calls' = Append(calls, [data EXCEPT !.failed = Failed(resp)])
           /\ call_failed' = (call_failed \/ Failed(resp))
           /\ pages' = PagesAfterPut(data, resp)
           /\ result' = res
           /\ IF Truthy(res) /\ images_to_upload # <<>>
              THEN /\ queue' = images_to_upload
                   /\ Goto("upload_list")
              ELSE /\ queue' = queue
                   /\ Return(Truthy(res))
    /\ UNCHANGED <<env, nfiles, frontmatter, body, title, confluence_content,
                   images_to_upload, branch, page_id, space_key, parent_id,
                   existing_page, existing_attachment>>

\* create_page and what follows it up to the first upload or the return.
CreatePage ==
    /\ pc = "create"
    /\ \E status \in Statuses :
        LET data == create_page_data(space_key, title, confluence_content, parent_id)
            resp == RemoteCreate(data, status)
            res == create_page(resp)
        IN /\ calls' = Append(calls, Answered(data, resp))
           /\ call_failed' = (call_failed \/ Failed(resp))
           /\ pages' = PagesAfterCreate(data, resp)
           /\ result' = res
           /\ IF Truthy(res)
              THEN IF "id" \notin res.keys
                   THEN /\ Raise
                        /\ UNCHANGED <<page_id, queue>>
                   ELSE /\ page_id' = res.id
                        /\ IF images_to_upload # <<>>
                           THEN /\ queue' = images_to_upload
                                /\ Goto("upload_list")
                           ELSE /\ queue' = queue
                                /\ Return(TRUE)
              ELSE /\ Return(FALSE)
                   /\ UNCHANGED <<page_id, queue>>
    /\ UNCHANGED <<env, nfiles, frontmatter, body, title, confluence_content,
                   images_to_upload, branch, space_key, parent_id, existing_page,
                   existing_attachment>>

\* The update of the created page moved into the upload loop: it is sent
\* after the first upload.
NextImageUpdatesEarly ==
    /\ queue' = Tail(queue)
    /\ IF branch = "create"
       THEN /\ Reconvert(page_id)
            /\ IF "version" \in result.keys
               THEN Goto("update_after_create")
               ELSE Raise
       ELSE IF Tail(queue) # <<>>
            THEN /\ Goto("upload_list")
                 /\ UNCHANGED <<images_to_upload, confluence_content>>
            ELSE /\ Return(TRUE)
                 /\ UNCHANGED <<images_to_upload, confluence_content>>

\* upload_attachment has returned for the head of the queue: the loop takes
\* the next image, or the code after the loop runs up to the next remote
\* call or the return.
NextImage ==
    /\ queue' = Tail(queue)
    /\ IF Tail(queue) # <<>>
       THEN /\ Goto("upload_list")
            /\ UNCHANGED <<images_to_upload, confluence_content>>
       ELSE IF branch = "create"
            THEN /\ Reconvert(page_id)
                 /\ IF "version" \in result.keys
                    THEN Goto("update_after_create")
                    ELSE Raise
            ELSE /\ Return(TRUE)
                 /\ UNCHANGED <<images_to_upload, confluence_content>>

\* upload_attachment: the listing of the page's attachments.
ListAttachments ==
    /\ pc = "upload_list"
    /\ \E status \in Statuses :
        LET resp == RemoteList(page_id, status)
        IN /\ calls' = Append(calls, [Call("GET_ATTACHMENTS", page_id) EXCEPT
                                        !.filename = Head(queue)])
           /\ call_failed' = (call_failed \/ Failed(resp))
           /\ IF resp.status = "exception"
              THEN /\ NextImage
                   /\ existing_attachment' = 0
              ELSE /\ existing_attachment' = find_existing_attachment(resp, Head(queue))
                   /\ Goto("upload_post")
                   /\ UNCHANGED <<queue, images_to_upload, confluence_content>>
    /\ UNCHANGED <<env, nfiles, frontmatter, body, title, branch, page_id, space_key,
                   parent_id, existing_page, result, pages>>

\* upload_attachment: the POST of the file, in place or as a new attachment.
PostAttachment ==
    /\ pc = "upload_post"
    /\ \E status \in Statuses :
        LET call == upload_target(page_id, Head(queue), existing_attachment)
            resp == RemoteUpload(call, status)
        IN /\ calls' = Append(calls, [call EXCEPT !.held = Held(page_id)])
           /\ call_failed' = (call_failed \/ Failed(resp))
           /\ pages' = PagesAfterUpload(call, resp)
    /\ existing_attachment' = 0
    /\ NextImage
    /\ UNCHANGED <<env, nfiles, frontmatter, body, title, branch, page_id, space_key,
                   parent_id, existing_page, result>>

\* The update that follows a create with images; its result is not read.
UpdateAfterCreate ==
    /\ pc = "update_after_create"
    /\ \E status \in Statuses :
        LET data == update_page_data(page_id, title, confluence_content, result.version)
            resp == RemotePut(data, status)
        IN /\ calls' = Append(calls, [data EXCEPT !.failed = Failed(resp)])
           /\ call_failed' = (call_failed \/ Failed(resp))
           /\ pages' = PagesAfterPut(data, resp)
    /\ Return(TRUE)
    /\ UNCHANGED <<env, nfiles, frontmatter, body, title, confluence_content,
                   images_to_upload, queue, branch, page_id, space_key, parent_id,
                   existing_page, result, existing_attachment>>

\* The body of the loop of process_markdown_files after the call: the file
\* is counted, the frame of process_markdown_file is gone, the next file is
\* taken.
CountFile ==
    /\ pc = "returned"
    /\ pc' = "loop"
    /\ idx' = idx + 1
    /\ success_count' = IF ret = "True" THEN success_count + 1 ELSE success_count
    /\ failure_count' = IF ret = "True" THEN failure_count ELSE failure_count + 1
    /\ ret' = "none"
    /\ frontmatter' = NoFrontMatter
    /\ body' = <<>>
    /\ title' = ""
    /\ confluence_content' = <<>>
    /\ images_to_upload' = <<>>
    /\ queue' = <<>>
    /\ branch' = "none"
    /\ page_id' = ""
    /\ space_key' = ""
    /\ parent_id' = ""
    /\ existing_page' = NoPage
    /\ result' = NoPage
    /\ existing_attachment' = 0
    /\ calls' = <<>>
    /\ call_failed' = FALSE
    /\ UNCHANGED <<env, nfiles, exit_code, raised, pages>>

\* main after process_markdown_files: the summary and the exit code.
Summary ==
    /\ pc = "loop"
    /\ idx = nfiles
    /\ pc' = "exit"
    /\ exit_code' = ExitCode(failure_count)
    /\ UNCHANGED <<env, nfiles, idx, success_count, failure_count, raised, ret,
                   frontmatter, body, title, confluence_content, images_to_upload,
                   queue, branch, page_id, space_key, parent_id, existing_page,
                   result, existing_attachment, calls, call_failed, pages>>

Next ==
    \/ Main
    \/ ReadError
    \/ BeginFile
    \/ GetPage
    \/ Search
    \/ UpdatePage
    \/ CreatePage
    \/ ListAttachments
    \/ PostAttachment
    \/ UpdateAfterCreate
    \/ CountFile
    \/ Summary

Spec == Init /\ [][Next]_vars


\* ============================================ the converter on characters
\* markdown_to_confluence_storage on the text of a body.  A text is a
\* sequence whose elements are the characters of the document and, for what
\* a stage writes, the literals of the source ("<h1>", "</em>", ...), one
\* element per literal: no literal holds a character a later stage matches
\* on, but for the "<" a literal begins with, which the paragraph stage asks
\* for.
Whitespace == {" ", "\t", "\n"}
Letters == {"a", "b", "c", "d", "e", "f", "g", "h", "i", "j", "k", "l", "m",
            "n", "o", "p", "q", "r", "s", "t", "u", "v", "w", "x", "y", "z"}
Digits == {"0", "1", "2", "3", "4", "5", "6", "7", "8", "9"}
\* \w of the regular expressions
WordChars == Letters \cup Digits \cup {"_"}

IMAGE_URL_OPEN == "<ac:image><ri:url ri:value=\""
IMAGE_ATTACHMENT_OPEN == "<ac:image><ri:attachment ri:filename=\""
IMAGE_CLOSE == "\" /></ac:image>"
IMAGE_NOT_FOUND_OPEN == "<p><em>Image not found: "
IMAGE_NO_PAGE_OPEN == "<p><em>Image: "
IMAGE_NOTE_CLOSE == "</em></p>"
HEADING_OPEN == <<"<h1>", "<h2>", "<h3>", "<h4>", "<h5>", "<h6>">>
HEADING_CLOSE == <<"</h1>", "</h2>", "</h3>", "</h4>", "</h5>", "</h6>">>
CODE_MACRO_OPEN ==
    "<ac:structured-macro ac:name=\"code\"><ac:parameter ac:name=\"language\">"
CODE_MACRO_BODY == "</ac:parameter><ac:plain-text-body><![CDATA["
CODE_MACRO_CLOSE == "]]></ac:plain-text-body></ac:structured-macro>"
NO_LANGUAGE == "none"

\* The literals a stage writes; each begins with "<" but the last three.
Literals ==
    {IMAGE_URL_OPEN, IMAGE_ATTACHMENT_OPEN, IMAGE_NOT_FOUND_OPEN, IMAGE_NO_PAGE_OPEN,
     IMAGE_NOTE_CLOSE, CODE_MACRO_OPEN, CODE_MACRO_BODY,
     "<strong>", "</strong>", "<em>", "</em>", "<code>", "</code>", "<hr />",
     "<p>", "</p>", "<table><tbody>", "</tbody></table>", "<tr>", "</tr>",
     "<th>", "</th>", "<td>", "</td>"}
    \cup {HEADING_OPEN[n] : n \in 1..6} \cup {HEADING_CLOSE[n] : n \in 1..6}

\* str.startswith('<')
StartsWithLt(s) == s # <<>> /\ (s[1] = "<" \/ s[1] \in Literals)

Min(S) == CHOOSE x \in S : \A y \in S : x <= y

\* The text s holds d at position i.
At(s, i, d) ==
    /\ i + Len(d) - 1 <= Len(s)
    /\ \A k \in 1..Len(d) : s[i + k - 1] = d[k]

\* "." of the regular expressions matches every s[a..b]: none is a newline.
Dots(s, a, b) == \A k \in a..b : s[k] # "\n"

\* The first position from i on that a "$" (MULTILINE) matches at.
LineEnd(s, i) == Min({p \in i..(Len(s) + 1) : p = Len(s) + 1 \/ s[p] = "\n"})

\* The first position from i on whose character is not in the class.
EndOfRun(s, i, class) ==
    Min({p \in i..(Len(s) + 1) : p = Len(s) + 1 \/ s[p] \notin class})

\* Path(image_path).name: what follows the last "/".
BaseName(path) ==
    LET slashes == {k \in 1..Len(path) : path[k] = "/"}
    IN IF slashes = {} THEN path
       ELSE SubSeq(path, (CHOOSE k \in slashes : \A m \in slashes : m <= k) + 1, Len(path))

\* str.strip()
Strip(s) ==
    LET inked == {k \in 1..Len(s) : s[k] \notin Whitespace}
    IN IF inked = {} THEN <<>>
       ELSE SubSeq(s, Min(inked), CHOOSE k \in inked : \A m \in inked : m <= k)

\* str.split(d), the separator d a text of one or two characters, and
\* d.join(parts).
RECURSIVE Split(_, _, _, _)
Split(s, i, from, d) ==
    IF i > Len(s) THEN <<SubSeq(s, from, Len(s))>>
    ELSE IF At(s, i, d)
         THEN <<SubSeq(s, from, i - 1)>> \o Split(s, i + Len(d), i + Len(d), d)
         ELSE Split(s, i + 1, from, d)

RECURSIVE Join(_, _)
Join(parts, d) ==
    IF parts = <<>> THEN <<>>
    ELSE IF Len(parts) = 1 THEN parts[1]
    ELSE parts[1] \o d \o Join(Tail(parts), d)

\* image_replace on the text of a path.
image_replace_text(image_path, md_file_path, collecting, files) ==
    IF At(image_path, 1, <<"h", "t", "t", "p", ":", "/", "/">>)
       \/ At(image_path, 1, <<"h", "t", "t", "p", "s", ":", "/", "/">>)
    THEN [markup |-> <<IMAGE_URL_OPEN>> \o image_path \o <<IMAGE_CLOSE>>, images |-> <<>>]
    ELSE IF md_file_path /\ collecting
    THEN IF image_path \in files
         THEN [markup |-> <<IMAGE_ATTACHMENT_OPEN>> \o BaseName(image_path) \o <<IMAGE_CLOSE>>,
               images |-> <<BaseName(image_path)>>]
         ELSE [markup |-> <<IMAGE_NOT_FOUND_OPEN>> \o image_path \o <<IMAGE_NOTE_CLOSE>>,
               images |-> <<>>]
    ELSE [markup |-> <<IMAGE_NO_PAGE_OPEN>> \o image_path \o <<IMAGE_NOTE_CLOSE>>,
          images |-> <<>>]

\* re.sub(r'!\[(.*?)\]\((.*?)\)', image_replace, content): the markup and
\* the images appended to images_to_upload (by the names they are uploaded
\* under), from position i on.
RECURSIVE sub_image(_, _, _, _, _)
sub_image(s, i, md_file_path, collecting, files) ==
    IF i > Len(s) THEN [markup |-> <<>>, images |-> <<>>]
    ELSE LET closes(a) == {b \in (a + 2)..Len(s) : s[b] = ")" /\ Dots(s, a + 2, b - 1)}
             mids == {a \in (i + 2)..Len(s) :
                        /\ At(s, a, <<"]", "(">>)
                        /\ Dots(s, i + 2, a - 1)
                        /\ closes(a) # {}}
         IN IF At(s, i, <<"!", "[">>) /\ mids # {}
            THEN LET a == Min(mids)
                     b == Min(closes(a))
                     rep == image_replace_text(SubSeq(s, a + 2, b - 1), md_file_path,
                                               collecting, files)
                     rest == sub_image(s, b + 1, md_file_path, collecting, files)
                 IN [markup |-> rep.markup \o rest.markup,
                     images |-> rep.images \o rest.images]
            ELSE LET rest == sub_image(s, i + 1, md_file_path, collecting, files)
                 IN [markup |-> <<s[i]>> \o rest.markup, images |-> rest.images]

\* re.sub(r'^#{n}\s+(.*?)$', r'<hn>\1</hn>', content, flags=re.MULTILINE),
\* from position i on.
RECURSIVE sub_heading(_, _, _)
sub_heading(s, i, n) ==
    IF i > Len(s) THEN <<>>
    ELSE LET text == EndOfRun(s, i + n, Whitespace)
             matches == /\ i = 1 \/ s[i - 1] = "\n"
                        /\ At(s, i, [k \in 1..n |-> "#"])
                        /\ text > i + n
         IN IF matches
            THEN <<HEADING_OPEN[n]>> \o SubSeq(s, text, LineEnd(s, text) - 1)
                    \o <<HEADING_CLOSE[n]>> \o sub_heading(s, LineEnd(s, text), n)
            ELSE <<s[i]>> \o sub_heading(s, i + 1, n)

\* The six substitutions in the order of the source: level 6 first.
headings(s) ==
    sub_heading(sub_heading(sub_heading(sub_heading(sub_heading(sub_heading(
        s, 1, 6), 1, 5), 1, 4), 1, 3), 1, 2), 1, 1)

\* re.sub of a pattern d(.*?)d by open \1 close: bold, italic, inline code.
RECURSIVE sub_delimited(_, _, _, _, _)
sub_delimited(s, i, d, open, close) ==
    IF i > Len(s) THEN <<>>
    ELSE LET ends == {j \in (i + Len(d))..Len(s) :
                        At(s, j, d) /\ Dots(s, i + Len(d), j - 1)}
         IN IF At(s, i, d) /\ ends # {}
            THEN <<open>> \o SubSeq(s, i + Len(d), Min(ends) - 1) \o <<close>>
                    \o sub_delimited(s, Min(ends) + Len(d), d, open, close)
            ELSE <<s[i]>> \o sub_delimited(s, i + 1, d, open, close)

bold(s) ==
    sub_delimited(sub_delimited(s, 1, <<"*", "*">>, "<strong>", "</strong>"),
                  1, <<"_", "_">>, "<strong>", "</strong>")

italic(s) ==
    sub_delimited(sub_delimited(s, 1, <<"*">>, "<em>", "</em>"),
                  1, <<"_">>, "<em>", "</em>")

\* The backtick character (a string cannot hold it).
BACKTICK == "backtick"

FENCE == <<BACKTICK, BACKTICK, BACKTICK>>

\* code_block_replace
code_block_replace(lang, code) ==
    <<CODE_MACRO_OPEN>> \o (IF lang = <<>> THEN <<NO_LANGUAGE>> ELSE lang)
        \o <<CODE_MACRO_BODY>> \o code \o <<CODE_MACRO_CLOSE>>

\* re.sub(code_block_pattern, code_block_replace, content, flags=re.DOTALL),
\* the pattern: three backticks, (\w*), a newline, (.*?), three backticks.
RECURSIVE sub_code_block(_, _)
sub_code_block(s, i) ==
    IF i > Len(s) THEN <<>>
    ELSE LET nl == EndOfRun(s, i + 3, WordChars)
             ends == {j \in (nl + 1)..Len(s) : At(s, j, FENCE)}
         IN IF At(s, i, FENCE) /\ nl <= Len(s) /\ s[nl] = "\n" /\ ends # {}
            THEN code_block_replace(SubSeq(s, i + 3, nl - 1), SubSeq(s, nl + 1, Min(ends) - 1))
                    \o sub_code_block(s, Min(ends) + 3)
            ELSE <<s[i]>> \o sub_code_block(s, i + 1)

inline_code(s) == sub_delimited(s, 1, <<BACKTICK>>, "<code>", "</code>")

\* ---- the table stage
IsTableLine(line) ==
    /\ \E k \in 1..Len(line) : line[k] = "|"
    /\ At(Strip(line), 1, <<"|">>)

\* [cell.strip() for cell in line.split('|')[1:-1]]
Cells(line) ==
    LET parts == Split(line, 1, 1, <<"|">>)
    IN [k \in 1..(Len(parts) - 2) |-> Strip(parts[k + 1])]

RECURSIVE TableRow(_, _, _)
TableRow(cells, open, close) ==
    IF cells = <<>> THEN <<>>
    ELSE <<open>> \o cells[1] \o <<close>> \o TableRow(Tail(cells), open, close)

RECURSIVE DataRows(_, _)
DataRows(table_lines, k) ==
    IF k > Len(table_lines) THEN <<>>
    ELSE <<"<tr>">> \o TableRow(Cells(table_lines[k]), "<td>", "</td>") \o <<"</tr>">>
            \o DataRows(table_lines, k + 1)

convert_table(table_lines) ==
    IF Len(table_lines) < 2 THEN Join(table_lines, <<"\n">>)
    ELSE <<"<table><tbody>", "<tr>">>
            \o TableRow(Cells(table_lines[1]), "<th>", "</th>") \o <<"</tr>">>
            \o DataRows(table_lines, 3) \o <<"</tbody></table>">>

\* The loop over the lines: converted_lines from line k on.
RECURSIVE table_loop(_, _, _, _)
table_loop(lines, k, in_table, table_rows) ==
    IF k > Len(lines)
    THEN IF in_table THEN <<convert_table(table_rows)>> ELSE <<>>
    ELSE IF IsTableLine(lines[k])
         THEN table_loop(lines, k + 1, TRUE,
                         IF in_table THEN Append(table_rows, lines[k]) ELSE <<lines[k]>>)
         ELSE (IF in_table THEN <<convert_table(table_rows)>> ELSE <<>>)
                \o <<lines[k]>> \o table_loop(lines, k + 1, FALSE, <<>>)

tables(s) == Join(table_loop(Split(s, 1, 1, <<"\n">>), 1, FALSE, <<>>), <<"\n">>)

\* re.sub(r'^---+$', r'<hr />', content, flags=re.MULTILINE)
RECURSIVE sub_rule(_, _)
sub_rule(s, i) ==
    IF i > Len(s) THEN <<>>
    ELSE LET e == EndOfRun(s, i, {"-"})
         IN IF /\ i = 1 \/ s[i - 1] = "\n"
               /\ e - i >= 3
               /\ e = Len(s) + 1 \/ s[e] = "\n"
            THEN <<"<hr />">> \o sub_rule(s, e)
            ELSE <<s[i]>> \o sub_rule(s, i + 1)

\* The paragraph stage.
paragraphs(s) ==
    LET paras == Split(s, 1, 1, <<"\n", "\n">>)
        format(para) == IF para # <<>> /\ ~StartsWithLt(para)
                        THEN <<"<p>">> \o para \o <<"</p>">>
                        ELSE para
    IN Join([k \in 1..Len(paras) |-> format(Strip(paras[k]))], <<"\n">>)

\* The stages after the image stage, which the two copies share.
after_images(s) ==
    paragraphs(sub_rule(tables(inline_code(sub_code_block(italic(bold(headings(s))), 1))), 1))

\* markdown_to_confluence_storage of the tools copy on text; files is the
\* relative paths that lead to a file from the document's directory.  page_id is not read.
markdown_to_confluence_storage_text(md_content, md_file_path, pid, collecting, files) ==
    LET imgs == sub_image(md_content, 1, md_file_path, collecting, files)
    IN [content |-> after_images(imgs.markup), images |-> imgs.images]

\* ---- the documents the converter is run on
\* The image files there are, by their path from the document's directory.
LocalFiles ==
    {<<"a", ".", "p", "n", "g">>,
     <<"a", "_", "b", "_", "c", ".", "p", "n", "g">>,
     <<"d", "/", "a", ".", "p", "n", "g">>}

ImagePaths ==
    LocalFiles \cup {<<"m", ".", "p", "n", "g">>, <<"h", "t", "t", "p", ":", "/", "/", "h">>}

ImageLine(path) == <<"!", "[", "i", "]", "(">> \o path \o <<")">>

ImageDocs ==
    {ImageLine(p) : p \in ImagePaths}
    \cup {ImageLine(p) \o <<" ">> \o ImageLine(q) : p, q \in LocalFiles}

\* One more "#" than there are heading levels.
MaxHashes == Len(HEADING_OPEN) + 1

HeadingTexts == {<<"x">>, <<"a", "_", "b", "_", "c">>, <<"*", "x", "*">>}

Hashes(n) == [k \in 1..n |-> "#"]

HeadingLine(n, text) == Hashes(n) \o <<" ">> \o text

HeadingDocs ==
    {HeadingLine(n, t) : n \in 1..MaxHashes, t \in HeadingTexts}
    \cup {Hashes(m) \o <<"\n">> \o HeadingLine(n, <<"x">>) : m, n \in 1..MaxHashes}
    \cup {HeadingLine(m, <<"x">>) \o <<"\n">> \o HeadingLine(n, <<"y">>) : m, n \in 1..MaxHashes}

Langs == {<<>>, <<"p", "y">>}

FenceContents ==
    {<<"x", "\n">>,
     <<"#", " ", "x", "\n">>,
     <<"*", "a", "*", "\n">>,
     <<"_", "_", "a", "_", "_", "\n">>,
     <<BACKTICK, "a", BACKTICK, "\n">>,
     <<"x", "\n", "\n", "y", "\n">>,
     ImageLine(<<"a", ".", "p", "n", "g">>) \o <<"\n">>}

Fence(lang, code) == FENCE \o lang \o <<"\n">> \o code \o FENCE

FenceDocs == {Fence(lang, code) : lang \in Langs, code \in FenceContents}

OtherDocs ==
    {<<"|", "a", "|", "b", "|", "\n", "|", "-", "|", "-", "|", "\n", "|", "1", "|", "2", "|">>,
     <<"x", "\n", "-", "-", "-", "\n", "y">>,
     <<"x", "\n", "\n", "y">>,
     <<"*", "*", "b", "*", "*", " ", BACKTICK, "c", BACKTICK, " ", "_", "i", "_">>}

TextBodies == ImageDocs \cup HeadingDocs \cup FenceDocs \cup OtherDocs

\* ---- the converter, stage by stage, on one document
TextInit ==
    /\ pc = "images"
    /\ env = [credentials |-> TRUE, PARENT_ID |-> PARENT_ID]
    /\ nfiles = 1
    /\ idx = 0
    /\ success_count = 0
    /\ failure_count = 0
    /\ exit_code = -1
    /\ raised = FALSE
    /\ ret = "none"
    /\ frontmatter = NoFrontMatter
    /\ body \in TextBodies
    /\ title = ""
    /\ confluence_content = body
    /\ images_to_upload = <<>>
    /\ queue = <<>>
    /\ branch = "none"
    /\ page_id = ""
    /\ space_key = ""
    /\ parent_id = ""
    /\ existing_page = NoPage
    /\ result = NoPage
    /\ existing_attachment = 0
    /\ calls = <<>>
    /\ call_failed = FALSE
    /\ pages = <<>>

\* One stage: content = re.sub(..., content).
Stage(from, to, content) ==
    /\ pc = from
    /\ pc' = to
    /\ confluence_content' = content
    /\ UNCHANGED <<env, nfiles, idx, success_count, failure_count, exit_code, raised,
                   ret, frontmatter, body, title, queue, branch, page_id, space_key,
                   parent_id, existing_page, result, existing_attachment, calls,
                   call_failed, pages>>

ConvertImages ==
    LET imgs == sub_image(confluence_content, 1, TRUE, TRUE, LocalFiles)
    IN /\ Stage("images", "headings", imgs.markup)
       /\ images_to_upload' = imgs.images

ConvertHeadings ==
    /\ Stage("headings", "bold", headings(confluence_content))
    /\ UNCHANGED images_to_upload

ConvertBold ==
    /\ Stage("bold", "italic", bold(confluence_content))
    /\ UNCHANGED images_to_upload

ConvertItalic ==
    /\ Stage("italic", "code_blocks", italic(confluence_content))
    /\ UNCHANGED images_to_upload

ConvertCodeBlocks ==
    /\ Stage("code_blocks", "inline_code", sub_code_block(confluence_content, 1))
    /\ UNCHANGED images_to_upload

ConvertInlineCode ==
    /\ Stage("inline_code", "tables", inline_code(confluence_content))
    /\ UNCHANGED images_to_upload

ConvertTables ==
    /\ Stage("tables", "rules", tables(confluence_content))
    /\ UNCHANGED images_to_upload

ConvertRules ==
    /\ Stage("rules", "paragraphs", sub_rule(confluence_content, 1))
    /\ UNCHANGED images_to_upload

ConvertParagraphs ==
    /\ Stage("paragraphs", "converted", paragraphs(confluence_content))
    /\ UNCHANGED images_to_upload

TextNext ==
    \/ ConvertImages
    \/ ConvertHeadings
    \/ ConvertBold
    \/ ConvertItalic
    \/ ConvertCodeBlocks
    \/ ConvertInlineCode
    \/ ConvertTables
    \/ ConvertRules
    \/ ConvertParagraphs

TextSpec == TextInit /\ [][TextNext]_vars


\* ========================================== scripts/sync_to_confluence.py
\* The copy under scripts/: get_page_by_id, create_page, update_page, the
\* loop and main read as in the copy under tools/; its converter has no
\* image stage and its process_markdown_file neither searches by title nor
\* uploads.
\* markdown_to_confluence_storage(md_content): an image reference stays the
\* markdown it is.
scripts_markdown_to_confluence_storage(md_content) ==
    [i \in 1..Len(md_content) |-> [kind |-> "markdown", name |-> md_content[i]]]

\* process_markdown_file up to its first remote call.
ScriptsBeginFile ==
    /\ pc = "loop"
    /\ idx < nfiles
    /\ \E fm \in FrontMatters, b \in Bodies :
        LET by_id == fm.confluence_page_id # Absent
        IN /\ frontmatter' = fm
           /\ body' = b
           /\ title' = fm.confluence_title
           /\ confluence_content' = scripts_markdown_to_confluence_storage(b)
           /\ branch' = IF by_id THEN "id" ELSE "create"
           /\ page_id' = IF by_id THEN fm.confluence_page_id ELSE ""
           /\ space_key' = IF by_id THEN "" ELSE Get(fm, "confluence_space_key", SPACE_KEY)
           /\ parent_id' = IF by_id THEN "" ELSE Get(fm, "confluence_parent_id", env.PARENT_ID)
           /\ pc' = IF by_id THEN "get_page" ELSE "create"
    /\ UNCHANGED <<env, nfiles, idx, success_count, failure_count, exit_code, raised,
                   ret, images_to_upload, queue, existing_page, result,
                   existing_attachment, calls, call_failed, pages>>

\* The branch with confluence_page_id up to the update request.
ScriptsGetPage ==
    /\ pc = "get_page"
    /\ \E status \in Statuses :
        LET resp == RemoteGet(page_id, status)
            page == get_page_by_id(resp)
        IN /\ calls' = Append(calls, Answered(Call("GET_CONTENT", page_id), resp))
           /\ call_failed' = (call_failed \/ Failed(resp))
           /\ existing_page' = page
           /\ IF Truthy(page)
              THEN IF "version" \in page.keys THEN Goto("update") ELSE Raise
              ELSE Return(FALSE)
    /\ UNCHANGED <<env, nfiles, frontmatter, body, title, confluence_content,
                   images_to_upload, queue, branch, page_id, space_key, parent_id,
                   result, existing_attachment, pages>>

\* update_page and the return.
ScriptsUpdatePage ==
    /\ pc = "update"
    /\ \E status \in Statuses :
        LET data == update_page_data(page_id, title, confluence_content,
                                     existing_page.version)
            resp == RemotePut(data, status)
            res == update_page(resp)
        IN /\ calls' = Append(calls, [data EXCEPT !.failed = Failed(resp)])
           /\ call_failed' = (call_failed \/ Failed(resp))
           /\ pages' = PagesAfterPut(data, resp)
           /\ result' = res
           /\ Return(Truthy(res))
    /\ UNCHANGED <<env, nfiles, frontmatter, body, title, confluence_content,
                   images_to_upload, queue, branch, page_id, space_key, parent_id,
                   existing_page, existing_attachment>>

\* create_page and the return.
ScriptsCreatePage ==
    /\ pc = "create"
    /\ \E status \in Statuses :
        LET data == create_page_data(space_key, title, confluence_content, parent_id)
            resp == RemoteCreate(data, status)
            res == create_page(resp)
        IN /\ calls' = Append(calls, Answered(data, resp))
           /\ call_failed' = (call_failed \/ Failed(resp))
           /\ pages' = PagesAfterCreate(data, resp)
           /\ result' = res
           /\ IF Truthy(res) /\ "id" \notin res.keys THEN Raise ELSE Return(Truthy(res))
    /\ UNCHANGED <<env, nfiles, frontmatter, body, title, confluence_content,
                   images_to_upload, queue, branch, page_id, space_key, parent_id,
                   existing_page, existing_attachment>>

ScriptsNext ==
    \/ Main
    \/ ReadError
    \/ ScriptsBeginFile
    \/ ScriptsGetPage
    \/ ScriptsUpdatePage
    \/ ScriptsCreatePage
    \/ CountFile
    \/ Summary

ScriptsSpec == Init /\ [][ScriptsNext]_vars


\* ================================================================ claims
IsPut(c) == c.op = "PUT_CONTENT"
IsCreate(c) == c.op = "POST_CONTENT"
IsList(c) == c.op = "GET_ATTACHMENTS"
IsUpload(c) == c.op \in {"POST_ATTACHMENT", "POST_ATTACHMENT_DATA"}
IsWrite(c) == IsPut(c) \/ IsCreate(c) \/ IsUpload(c)

Puts == SelectSeq(calls, IsPut)
Creates == SelectSeq(calls, IsCreate)

\* The candidates of the title search whose title is the document's.
ExactHits ==
    LET exact(p) == p.title = title
    IN SelectSeq(calls[1].results, exact)

Searched == calls # <<>> /\ calls[1].op = "SEARCH"

\* C1: with confluence_page_id in the front-matter and no page returned for
\* it (404, another status or a transport error), the fetch is the only
\* remote call of the document and process_markdown_file has returned False.
C1_MissingPageIsSkipped ==
    (branch = "id" /\ calls # <<>> /\ calls[1].op = "GET_CONTENT" /\ calls[1].failed)
        => /\ Len(calls) = 1
           /\ pc = "returned"
           /\ ret = "False"

C1_Witness ==
    /\ pc = "returned"
    /\ branch = "id"
    /\ frontmatter.confluence_page_id = AbsentPageId
    /\ Len(calls) = 1
    /\ calls[1].failed
    /\ ret = "False"

\* C2: without confluence_page_id, when the search returns a candidate with
\* exactly the document's title, no create is issued and the only update of
\* the document goes to that candidate's id with its version plus one; the
\* update has been sent once the document is past it.
C2_TitleMatchIsUpdated ==
    (Searched /\ ExactHits # <<>>)
        => /\ Creates = <<>>
           /\ pc \in {"update", "upload_list", "upload_post", "returned"}
           /\ Len(Puts) = (IF pc = "update" THEN 0 ELSE 1)
           /\ \A i \in 1..Len(Puts) :
                /\ Puts[i].page = ExactHits[1].id
                /\ Puts[i].version = ExactHits[1].version + 1

C2_Witness ==
    /\ pc = "returned"
    /\ Searched
    /\ ExactHits # <<>>
    /\ Len(calls[1].results) = 2
    /\ Len(Puts) = 1
    /\ ret = "True"

\* C3: without confluence_page_id, when the search finds no exactly matching
\* page, the next call is the one create of the document; its space key is
\* the front-matter's if given and SPACE_KEY otherwise, its ancestors entry
\* the front-matter's parent if given and PARENT_ID otherwise, left out when
\* that value is empty; the document succeeds exactly when the create does.
C3_NoMatchIsCreated ==
    (Searched /\ ExactHits = <<>>)
        => LET space == IF frontmatter.confluence_space_key # Absent
                        THEN frontmatter.confluence_space_key ELSE SPACE_KEY
               parent == IF frontmatter.confluence_parent_id # Absent
                         THEN frontmatter.confluence_parent_id ELSE env.PARENT_ID
           IN /\ pc # "update"
              /\ Len(Creates) = (IF pc = "create" THEN 0 ELSE 1)
              /\ Len(calls) >= 2 =>
                    /\ calls[2].op = "POST_CONTENT"
                    /\ calls[2].space = space
                    /\ calls[2].title = frontmatter.confluence_title
                    /\ calls[2].ancestors = (IF parent = "" THEN <<>> ELSE <<parent>>)
                    /\ (pc = "returned" => (ret = "True" <=> ~calls[2].failed))

C3_Witness ==
    /\ pc = "returned"
    /\ Searched
    /\ ExactHits = <<>>
    /\ frontmatter.confluence_space_key = Absent
    /\ frontmatter.confluence_parent_id = ""
    /\ Len(Creates) = 1
    /\ Creates[1].space = SPACE_KEY
    /\ Creates[1].ancestors = <<>>
    /\ ret = "True"


\* C4: a document one of whose remote calls failed (non-2xx status or
\* transport exception) has returned False.
C4_AnyFailureFailsDocument ==
    (pc = "returned" /\ ret # "none" /\ call_failed) => ret = "False"

\* C5: when main ends, the loop has taken every discovered file, the two
\* counts add up to the number of files, and the exit code is 1 exactly
\* when failure_count > 0.
C5_EveryFileCounted ==
    (pc = "exit" /\ env.credentials)
        => /\ idx = nfiles
           /\ success_count + failure_count = nfiles
           /\ exit_code = (IF failure_count > 0 THEN 1 ELSE 0)

\* C6: no exception leaves process_markdown_file.
C6_NoExceptionEscapes == ~raised

\* The call c returned a representation of the page with version v.
PageRead(c, page, v) ==
    \/ /\ c.op = "GET_CONTENT"
       /\ ~c.failed
       /\ c.page = page
       /\ c.answer.version = v
    \/ /\ c.op = "SEARCH"
       /\ \E i \in 1..Len(c.results) : c.results[i].id = page /\ c.results[i].version = v
    \/ /\ c.op = "POST_CONTENT"
       /\ ~c.failed
       /\ c.answer.id = page
       /\ c.answer.version = v

\* C7 as stated: every update carries v + 1 with v read from the remote by
\* the call right before it.
C7_ReadRightBeforeEveryUpdate ==
    \A k \in 1..Len(calls) :
        IsPut(calls[k]) =>
            /\ k > 1
            /\ PageRead(calls[k-1], calls[k].page, calls[k].version - 1)

\* C7 amended: every update carries v + 1 with v the version in the last
\* representation of that page the program got (fetch, search or create
\* answer); the calls in between, if any, are the attachment listings and
\* uploads on that page that follow a create.
C7_UpdateCarriesReadVersionPlusOne ==
    \A k \in 1..Len(calls) :
        IsPut(calls[k]) =>
            \E j \in 1..(k-1) :
                /\ PageRead(calls[j], calls[k].page, calls[k].version - 1)
                /\ \A m \in (j+1)..(k-1) :
                      /\ IsList(calls[m]) \/ IsUpload(calls[m])
                      /\ calls[m].page = calls[k].page
                /\ (j < k - 1) => calls[j].op = "POST_CONTENT"

C7_Witness ==
    /\ pc = "returned"
    /\ branch = "create"
    /\ Len(calls) >= 4
    /\ IsPut(calls[Len(calls)])
    /\ IsUpload(calls[Len(calls) - 1])
    /\ calls[Len(calls)].version = 2

\* C8: a document issues at most one create; its updates, its uploads and
\* the page its create made are one page; no create is issued once the
\* fetch or the title search has resolved an existing page.
Targets ==
    {calls[k].page : k \in {i \in 1..Len(calls) : IsPut(calls[i]) \/ IsUpload(calls[i])}}
    \cup
    {calls[k].answer.id : k \in {i \in 1..Len(calls) : IsCreate(calls[i]) /\ ~calls[i].failed}}

Resolved ==
    /\ calls # <<>>
    /\ \/ calls[1].op = "GET_CONTENT" /\ ~calls[1].failed
       \/ calls[1].op = "SEARCH" /\ ExactHits # <<>>

C8_OnePagePerDocument ==
    /\ Len(Creates) <= 1
    /\ Cardinality(Targets) <= 1
    /\ Resolved => Creates = <<>>

C8_Witness ==
    /\ pc = "returned"
    /\ branch = "create"
    /\ Len(Creates) = 1
    /\ Len(Puts) = 1
    /\ \E k \in 1..Len(calls) : IsUpload(calls[k])
    /\ Targets = {Creates[1].answer.id}

\* C9: for a document with images on the create branch: a failed create is
\* the last call; after a create that succeeded come, on the created page,
\* the uploads of the images in their order (each a listing and the POST
\* that follows it), and the one update comes last, once every image has
\* been taken, with the attachment reference of every image in its body.
C9_CreateThenUploadsThenUpdate ==
    (branch = "create" /\ SelectSeq(body, Exists) # <<>> /\ Len(calls) >= 2)
        => LET imgs == SelectSeq(body, Exists)
               post == calls[2]
               rest == SubSeq(calls, 3, Len(calls))
               lists == SelectSeq(rest, IsList)
           IN /\ IsCreate(post)
              /\ post.failed => (Len(calls) = 2 /\ pc = "returned" /\ ret = "False")
              /\ ~post.failed =>
                    /\ pc \in {"upload_list", "upload_post", "update_after_create", "returned"}
                    /\ \A k \in 3..Len(calls) :
                          /\ calls[k].page = post.answer.id
                          /\ IsList(calls[k]) \/ IsUpload(calls[k]) \/ IsPut(calls[k])
                          /\ IsUpload(calls[k]) =>
                                /\ IsList(calls[k-1])
                                /\ calls[k-1].filename = calls[k].filename
                          /\ IsPut(calls[k]) =>
                                /\ k = Len(calls)
                                /\ \A i \in 1..Len(imgs) :
                                      \E j \in 1..Len(calls[k].content) :
                                          calls[k].content[j] =
                                              [kind |-> "attachment", name |-> imgs[i]]
                    /\ Len(lists) <= Len(imgs)
                    /\ \A i \in 1..Len(lists) : lists[i].filename = imgs[i]
                    /\ pc \in {"update_after_create", "returned"} => Len(lists) = Len(imgs)
                    /\ Len(Puts) = (IF pc = "returned" THEN 1 ELSE 0)

C9_Witness ==
    /\ pc = "returned"
    /\ branch = "create"
    /\ body = <<"b.png", "a.png">>
    /\ Len(calls) = 7
    /\ IsPut(calls[7])
    /\ ret = "True"

\* C10: a file is posted as a new attachment only to a page that holds no
\* attachment of its name; when the page holds one, the POST replaces it.
C10_SameNameIsReplaced ==
    \A k \in 1..Len(calls) :
        calls[k].op = "POST_ATTACHMENT" =>
            \A i \in 1..Len(calls[k].held) : calls[k].held[i] # calls[k].filename

\* C11: a document that is one fenced block converts to the code macro
\* whose CDATA body is the text between the fences, character for
\* character, and whose language parameter is the tag of the fence, "none"
\* when the fence has no tag.
C11_FenceBodyVerbatim ==
    \A lang \in Langs, code \in FenceContents :
        (pc = "converted" /\ body = Fence(lang, code))
            => confluence_content =
                  <<CODE_MACRO_OPEN>> \o (IF lang = <<>> THEN <<NO_LANGUAGE>> ELSE lang)
                      \o <<CODE_MACRO_BODY>> \o code \o <<CODE_MACRO_CLOSE>>

\* The markup refers to an attachment of that name.
Refers(content, name) ==
    \E i \in 1..Len(content) :
        At(content, i, <<IMAGE_ATTACHMENT_OPEN>> \o name \o <<IMAGE_CLOSE>>)

\* C12: every image the conversion collected for upload is referred to in
\* the final markup by the name it is uploaded under, character for
\* character.
C12_ReferenceIsUploadName ==
    pc = "converted"
        => \A k \in 1..Len(images_to_upload) :
              Refers(confluence_content, images_to_upload[k])

\* The levels of the heading tags the markup holds.
TaggedLevels(content) ==
    {n \in 1..Len(HEADING_OPEN) : \E i \in 1..Len(content) : content[i] = HEADING_OPEN[n]}

\* C13: a document that is one line of n '#' (n in 1..6), a space and a
\* text converts to the level-n heading tag around exactly that text; and a
\* line of n '#', a space and a text that follows a line of '#' alone is
\* given no heading tag of another level than n (none at all when n > 6).
C13_HeadingLevelIsHashCount ==
    /\ \A n \in 1..Len(HEADING_OPEN), text \in HeadingTexts :
          (pc = "converted" /\ body = HeadingLine(n, text))
              => confluence_content = <<HEADING_OPEN[n]>> \o text \o <<HEADING_CLOSE[n]>>
    /\ \A m, n \in 1..MaxHashes :
          (pc = "converted" /\ body = Hashes(m) \o <<"\n">> \o HeadingLine(n, <<"x">>))
              => TaggedLevels(confluence_content) \subseteq {n}

\* C14: the copy under scripts/ issues the calls the copy under tools/
\* issues: like there (C2, C3), the first call of a document without
\* confluence_page_id is the search for its title.
C14_CopiesIssueSameCalls ==
    (frontmatter.confluence_page_id = Absent /\ calls # <<>>)
        => calls[1].op = "SEARCH"

Attachments == [i \in 1..Len(pages) |-> pages[i].attachments]

\* C16: on the two update branches every attachment listing and upload of
\* the document comes after its update, which succeeded, and goes to the
\* page updated; an update that failed is the last call of the document,
\* which returns False, and leaves the attachments of the remote as they
\* were.
C16_UploadsOnlyAfterUpdate ==
    /\ [](branch \in {"id", "title"} =>
            /\ \A k \in 1..Len(calls) :
                  (IsList(calls[k]) \/ IsUpload(calls[k]))
                      => /\ k > 2
                         /\ IsPut(calls[2])
                         /\ ~calls[2].failed
                         /\ calls[k].page = calls[2].page
            /\ (Len(calls) >= 2 /\ IsPut(calls[2]) /\ calls[2].failed)
                  => /\ Len(calls) = 2
                     /\ pc = "returned"
                     /\ ret = "False")
    /\ [][(pc = "update" /\ ret' = "False") => Attachments' = Attachments]_vars

C16_Witness ==
    /\ pc = "returned"
    /\ branch = "title"
    /\ Len(calls) = 6
    /\ IsPut(calls[2])
    /\ ~calls[2].failed
    /\ IsUpload(calls[4])
    /\ IsUpload(calls[6])

====
